---------------------------- MODULE Spec2Model ----------------------------
(***************************************************************************)
(* krafscms: a minimal static-site generator (src/krafscms.py).            *)
(*                                                                         *)
(* Texts are sequences of one-character strings, so that the regular       *)
(* expressions of parse_params and extract_config and the placeholder      *)
(* scanner of str.format are modelled by what they do to the characters.   *)
(* Paths are sequences of segments, the last one being the file name,      *)
(* itself a sequence of characters.                                        *)
(***************************************************************************)
EXTENDS Integers, Sequences, FiniteSets, TLC

VARIABLES
    src,        \* the source tree: path -> [text, mtime]
    tgt,        \* the target tree: path -> [text, mtime]
    tgt0,       \* the target tree when the running build started
    tdirs,      \* the directories that exist under the target root
    TEMPLATES,  \* the template store: name -> [html, default_params]
    now,        \* the clock of the file system
    todo,       \* the source paths the glob of the running build still yields
    pc,         \* "walking", "done" (returned) or "failed" (an exception left);
                \* "ready" / "returned" for a function called on its own
    prev,       \* how the previous build ended: "none", "done" or "failed"
    calls,      \* the compile / copy invocations of the running build
    seen,       \* the <<source path, target path>> pairs the running build computed
    arg,        \* the argument of the function called on its own
    ret         \* its result, once pc = "returned"

vars == <<src, tgt, tgt0, tdirs, TEMPLATES, now, todo, pc, prev, calls, seen, arg, ret>>

fsvars_but_pc == <<src, tgt, tgt0, tdirs, TEMPLATES, now, todo, prev, calls, seen>>

-----------------------------------------------------------------------------
(* Bounds *)

\* the longest parameter mapping that is serialized and parsed back
MaxPairs == 2

\* the number of pieces a document text is assembled from
MaxParts == 4

\* the deepest nesting the renderer is asked for
MaxDepth == 2

\* the most source files of one source tree
MaxFiles == 2

\* the clock starts at MaxTime; the source files were modified in 1..MaxTime
MaxTime == 2

-----------------------------------------------------------------------------
(* Characters and strings *)

\* Python's None where a string is expected: no text is equal to it
None == <<"None">>

EmptyDict == <<>>

SpaceChars == {" ", "\n", "\t"}

WordChars == {"a", "b", "c", "d", "e", "f", "g", "h", "i", "j", "k", "l", "m",
              "n", "o", "p", "q", "r", "s", "t", "u", "v", "w", "x", "y", "z",
              "A", "B", "C", "D", "E", "F", "G", "H", "I", "J", "K", "L", "M",
              "N", "O", "P", "Q", "R", "S", "T", "U", "V", "W", "X", "Y", "Z",
              "0", "1", "2", "3", "4", "5", "6", "7", "8", "9", "_"}

IsSpace(c) == c \in SpaceChars

IsWord(c) == c \in WordChars

QUOTE == "\""

NL == "\n"

\* s[i..j] (1-based, inclusive), empty when j < i
Slice(s, i, j) == IF j < i THEN <<>> ELSE SubSeq(s, i, j)

\* pat occurs in s at position i
StartsWithAt(s, i, pat) ==
    /\ i >= 1
    /\ i + Len(pat) - 1 <= Len(s)
    /\ \A k \in 1..Len(pat) : s[i + k - 1] = pat[k]

\* the position after the longest run of whitespace starting at i (regex \s*)
RECURSIVE SkipSpace(_, _)
SkipSpace(s, i) ==
    IF i <= Len(s) /\ IsSpace(s[i]) THEN SkipSpace(s, i + 1) ELSE i

\* the position after the longest run of word characters starting at i (regex \w+)
RECURSIVE SkipWord(_, _)
SkipWord(s, i) ==
    IF i <= Len(s) /\ IsWord(s[i]) THEN SkipWord(s, i + 1) ELSE i

RECURSIVE Concat(_)
Concat(ss) == IF ss = <<>> THEN <<>> ELSE Head(ss) \o Concat(Tail(ss))

-----------------------------------------------------------------------------
(* strip_quotes, parse_params *)

strip_quotes_keep(string) == string

strip_quotes(string) ==
    IF Len(string) >= 1 /\ string[1] = QUOTE /\ string[Len(string)] = QUOTE
    THEN Slice(string, 2, Len(string) - 1)
    ELSE string

NoMatch == [matched |-> FALSE]

\* the value token (".*?"|\w+) at position i, followed by \s* : nothing is
\* required after it, so the lazy quoted form stops at the first closing
\* quote; "." does not match a line break
ValueTokenAt(s, i) ==
    IF i > Len(s) THEN NoMatch
    ELSE IF s[i] = QUOTE THEN
        LET closers == {j \in (i + 1)..Len(s) :
                          /\ s[j] = QUOTE
                          /\ \A k \in (i + 1)..(j - 1) : s[k] # NL}
        IN  IF closers = {} THEN NoMatch
            ELSE LET j == CHOOSE c \in closers : \A d \in closers : c <= d
                 IN  [matched |-> TRUE, token |-> Slice(s, i, j),
                      end |-> SkipSpace(s, j + 1)]
    ELSE IF IsWord(s[i]) THEN
        LET e == SkipWord(s, i)
        IN  [matched |-> TRUE, token |-> Slice(s, i, e - 1), end |-> SkipSpace(s, e)]
    ELSE NoMatch

\* \s*:\s*(value)\s* at position i, after a key token
AfterKey(s, i) ==
    LET c == SkipSpace(s, i)
    IN  IF c <= Len(s) /\ s[c] = ":" THEN ValueTokenAt(s, SkipSpace(s, c + 1))
        ELSE NoMatch

\* the pair whose key token is s[k..e-1] and whose value matched as v
PairOf(s, k, e, v) ==
    [matched |-> TRUE, key |-> Slice(s, k, e - 1), value |-> v.token, end |-> v.end]

\* the position after the key token (".*?"|\w+) that starts at k, 0 when the
\* pattern does not match there. A quoted key is lazy: the regex engine
\* extends it to the next closing quote while the rest does not match.
KeyEnd(s, k) ==
    IF k > Len(s) THEN 0
    ELSE IF s[k] = QUOTE THEN
        LET closers == {j \in (k + 1)..Len(s) :
                          /\ s[j] = QUOTE
                          /\ \A m \in (k + 1)..(j - 1) : s[m] # NL
                          /\ AfterKey(s, j + 1).matched}
        IN  IF closers = {} THEN 0
            ELSE (CHOOSE c \in closers : \A d \in closers : c <= d) + 1
    ELSE IF IsWord(s[k]) /\ AfterKey(s, SkipWord(s, k)).matched THEN SkipWord(s, k)
    ELSE 0

PairFrom(s, k, e) == IF e = 0 THEN NoMatch ELSE PairOf(s, k, e, AfterKey(s, e))

\* \s*(key)\s*:\s*(value)\s* at position i
PairAt(s, i) == PairFrom(s, SkipSpace(s, i), KeyEnd(s, SkipSpace(s, i)))

\* one attempt of the pattern at position pos: (?:^|,) then the pair
MatchAt(s, pos) ==
    IF pos = 1 /\ KeyEnd(s, SkipSpace(s, 1)) # 0 THEN PairAt(s, 1)
    ELSE IF pos <= Len(s) /\ s[pos] = "," THEN PairAt(s, pos + 1)
    ELSE NoMatch

\* re.findall: the non-overlapping matches, scanning from the left
RECURSIVE FindAll(_, _)
RECURSIVE FindNext(_, _, _)
FindNext(s, pos, m) ==
    IF m.matched
    THEN <<[key |-> m.key, value |-> m.value]>> \o FindAll(s, m.end)
    ELSE FindAll(s, pos + 1)

FindAll(s, pos) == IF pos > Len(s) THEN <<>> ELSE FindNext(s, pos, MatchAt(s, pos))

\* the dict comprehension: a later pair overwrites an earlier one
RECURSIVE DictOf(_, _)
DictOf(pairs, d) ==
    IF pairs = <<>> THEN d
    ELSE DictOf(Tail(pairs),
                (strip_quotes(Head(pairs).key) :> strip_quotes(Head(pairs).value)) @@ d)

parse_params(params_string) ==
    IF params_string = None \/ params_string = <<>> THEN EmptyDict
    ELSE DictOf(FindAll(params_string, 1), EmptyDict)


-----------------------------------------------------------------------------
(* extract_config *)

OPEN == <<"<", "!", "-", "-">>

CLOSE == <<"-", "-", ">">>

\* the first position >= i where pat occurs in s, 0 when there is none
FirstAt(s, pat, i) ==
    LET hits == {c \in i..Len(s) : StartsWithAt(s, c, pat)}
    IN  IF hits = {} THEN 0 ELSE CHOOSE c \in hits : \A d \in hits : c <= d

\* the start of the whitespace run that ends right before position c, not below k
RECURSIVE TrailingSpaceStart(_, _, _)
TrailingSpaceStart(s, k, c) ==
    IF c > k /\ IsSpace(s[c - 1]) THEN TrailingSpaceStart(s, k, c - 1) ELSE c

NoBlock(source) == [params |-> None, content |-> source]

\* the groups when the open delimiter is at o and the first close delimiter
\* after it at c: params are what lies between, whitespace trimmed; one line
\* break after the close delimiter is dropped
GroupsTo(source, o, c) ==
    IF c = 0 THEN NoBlock(source)
    ELSE [params |-> Slice(source, SkipSpace(source, o + 4),
                           TrailingSpaceStart(source, SkipSpace(source, o + 4), c) - 1),
          content |-> Slice(source,
                            IF c + 3 <= Len(source) /\ source[c + 3] = NL
                            THEN c + 4 ELSE c + 3,
                            Len(source))]

GroupsFrom(source, o) ==
    IF StartsWithAt(source, o, OPEN)
    THEN GroupsTo(source, o, FirstAt(source, CLOSE, o + 4))
    ELSE NoBlock(source)

\* re.match of (?:\s*<!--\s*(?P<params>.*?)\s*-->\n?)?(?P<content>.*), DOTALL:
\* the optional group takes part when, after leading whitespace, the open
\* delimiter is followed somewhere by a close delimiter; the lazy params stop
\* at the first one
ConfigGroups(source) == GroupsFrom(source, SkipSpace(source, 1))

\* lines 53-55
ConfigOf(groups) == [params |-> parse_params(groups.params), content |-> groups.content]

\* the same pattern with \s* moved out of the optional group: leading
\* whitespace is dropped from a text without a block too
extract_config_lstrip(source) ==
    ConfigOf(ConfigGroups(Slice(source, SkipSpace(source, 1), Len(source))))

extract_config(source) == ConfigOf(ConfigGroups(source))

-----------------------------------------------------------------------------
(* Template.format, apply_template, compile_from_source *)

K_content == <<"c", "o", "n", "t", "e", "n", "t">>

K_root == <<"r", "o", "o", "t">>

K_template == <<"t", "e", "m", "p", "l", "a", "t", "e">>

K_default == <<"d", "e", "f", "a", "u", "l", "t">>

Raise(kind) == [ok |-> FALSE, err |-> kind]

Return(v) == [ok |-> TRUE, val |-> v]

\* ChainMap(params, defaults): a lookup finds the first mapping that has the key
ChainMap(params, defaults) ==
    [k \in (DOMAIN params) \cup (DOMAIN defaults) |->
        IF k \in DOMAIN params THEN params[k] ELSE defaults[k]]

\* the mapping with one more keyword argument
WithKey(d, k, v) == (k :> v) @@ d

\* str.format over keyword arguments kw: {name} is replaced by kw[name],
\* {{ and }} are the literal braces; done is the text produced so far. The
\* templates of this model use plain field names (no conversion, format
\* spec, attribute or index).
RECURSIVE StrFormat(_, _, _, _)
StrFormat(html, i, kw, done) ==
    IF i > Len(html) THEN Return(done)
    ELSE IF html[i] = "{" THEN
        IF i + 1 <= Len(html) /\ html[i + 1] = "{"
        THEN StrFormat(html, i + 2, kw, Append(done, "{"))
        ELSE
            LET stops == {j \in (i + 1)..Len(html) : html[j] \in {"{", "}"}}
            IN  IF stops = {} THEN Raise("ValueError")
                ELSE LET j == CHOOSE c \in stops : \A d \in stops : c <= d
                         name == Slice(html, i + 1, j - 1)
                     IN  IF html[j] = "{" THEN Raise("ValueError")
                         ELSE IF name = <<>> \/ \A n \in 1..Len(name) :
                                      name[n] \in {"0", "1", "2", "3", "4", "5", "6", "7", "8", "9"}
                              THEN Raise("IndexError")
                         ELSE IF name \notin DOMAIN kw THEN Raise("KeyError")
                         ELSE StrFormat(html, j + 1, kw, done \o kw[name])
    ELSE IF html[i] = "}" THEN
        IF i + 1 <= Len(html) /\ html[i + 1] = "}"
        THEN StrFormat(html, i + 2, kw, Append(done, "}"))
        ELSE Raise("ValueError")
    ELSE StrFormat(html, i + 1, kw, Append(done, html[i]))

\* format writes to its template what this bug would: the page parameters
\* are merged into the template's defaults
TemplateAfterFormat_update(template, params) ==
    [template EXCEPT !.default_params = ChainMap(params, @)]

\* format reads the defaults through a ChainMap and leaves the template as it was
TemplateAfterFormat(template, params) == template

\* Template.format(content, **params): content is a parameter of its own, so
\* params cannot hold it; the defaults can, and then str.format gets it twice
Template_format(template, content, params) ==
    LET cm == ChainMap(params, template.default_params)
    IN  IF K_content \in DOMAIN cm THEN Raise("TypeError")
        ELSE StrFormat(template.html, 1, WithKey(cm, K_content, content), <<>>)

\* "../" * depth
RECURSIVE RootPrefix(_)
RootPrefix(depth) ==
    IF depth <= 0 THEN <<>> ELSE <<".", ".", "/">> \o RootPrefix(depth - 1)

\* the result, and the store as the call leaves it
apply_template(store, template_name, content_html, config, depth) ==
    IF template_name \notin DOMAIN store
    THEN [out |-> Raise("KeyError"), store |-> store]
    ELSE IF K_content \in DOMAIN config \/ K_root \in DOMAIN config
    THEN [out |-> Raise("TypeError"), store |-> store]
    ELSE LET params == WithKey(config, K_root, RootPrefix(depth))
         IN  [out |-> Template_format(store[template_name], content_html, params),
              store |-> [store EXCEPT
                           ![template_name] = TemplateAfterFormat(@, params)]]

\* markdown.markdown, the external converter: a text becomes one paragraph
markdown(text) ==
    IF text = <<>> THEN <<>> ELSE <<"<", "p", ">">> \o text \o <<"<", "/", "p", ">">>

\* config.get("template", "default")
TemplateName(config) ==
    IF K_template \in DOMAIN config THEN config[K_template] ELSE K_default

\* lines 68-72, once the config is extracted
Compiled(store, cfg, depth) ==
    apply_template(store, TemplateName(cfg.params), markdown(cfg.content),
                   cfg.params, depth)

compile_from_source(store, source, depth) ==
    Compiled(store, extract_config(source), depth)

-----------------------------------------------------------------------------
(* load_templates *)

\* the templates directory: file name -> text
\*   default.html   <!--g:"hi"-->\n{root}|{g}|{content}
\*   s.html         {root}|{title}|{content}
TemplateFiles ==
    (<<"d", "e", "f", "a", "u", "l", "t", ".", "h", "t", "m", "l">> :>
        <<"<", "!", "-", "-", "g", ":", "\"", "h", "i", "\"", "-", "-", ">", "\n",
          "{", "r", "o", "o", "t", "}", "|", "{", "g", "}", "|",
          "{", "c", "o", "n", "t", "e", "n", "t", "}">>)
    @@
    (<<"s", ".", "h", "t", "m", "l">> :>
        <<"{", "r", "o", "o", "t", "}", "|", "{", "t", "i", "t", "l", "e", "}", "|",
          "{", "c", "o", "n", "t", "e", "n", "t", "}">>)

\* fn.name.split(".")[0]
BeforeFirstDot(name) ==
    LET dots == {i \in 1..Len(name) : name[i] = "."}
    IN  IF dots = {} THEN name
        ELSE Slice(name, 1, (CHOOSE i \in dots : \A j \in dots : i <= j) - 1)

\* glob("*.html"): the name ends with .html
IsHtmlName(name) ==
    Len(name) >= 5 /\ Slice(name, Len(name) - 4, Len(name)) = <<".", "h", "t", "m", "l">>

\* Template(html, params)
Template(cfg) == [html |-> cfg.content, default_params |-> cfg.params]

load_templates(files) ==
    LET names == {fn \in DOMAIN files : IsHtmlName(fn)}
    IN  [n \in {BeforeFirstDot(fn) : fn \in names} |->
            Template(extract_config(files[CHOOSE f \in names : BeforeFirstDot(f) = n]))]

-----------------------------------------------------------------------------
(* Paths *)

\* PurePath.suffix: from the last dot, unless the name starts or ends with it
LastDot(name) ==
    LET dots == {i \in 1..Len(name) : name[i] = "."}
    IN  IF dots = {} THEN 0 ELSE CHOOSE i \in dots : \A j \in dots : j <= i

HasSuffix(name) == LastDot(name) > 1 /\ LastDot(name) < Len(name)

Suffix(name) == IF HasSuffix(name) THEN Slice(name, LastDot(name), Len(name)) ELSE <<>>

Stem(name) == IF HasSuffix(name) THEN Slice(name, 1, LastDot(name) - 1) ELSE name

FileName(path) == path[Len(path)]

\* rel_path.parent
Parent(path) == Slice(path, 1, Len(path) - 1)

\* PurePath.parents of a relative directory: "a/b" has "a" and ".", "." has none
Parents(dir) == [i \in 1..Len(dir) |-> Slice(dir, 1, Len(dir) - i)]

\* len(rel_path.parents) in place of len(rel_dir.parents)
depth_of_path(rel_path) == Len(Parents(rel_path))

\* lines 97-99: the depth handed to the compiler
depth_of(rel_path) == Len(Parents(Parent(rel_path)))

EXT_MD == <<".", "m", "d">>

EXT_HTML == <<".", "h", "t", "m", "l">>

IsDocument(path) == Suffix(FileName(path)) = EXT_MD

\* the target directory forgotten: every file lands in the target root
target_path_flat(rel_path) ==
    IF IsDocument(rel_path)
    THEN <<Stem(FileName(rel_path)) \o EXT_HTML>>
    ELSE <<FileName(rel_path)>>

\* lines 101-106, 114: the target path, relative to the target root
target_path(rel_path) ==
    IF IsDocument(rel_path)
    THEN Parent(rel_path) \o <<Stem(FileName(rel_path)) \o EXT_HTML>>
    ELSE Parent(rel_path) \o <<FileName(rel_path)>>

\* the pattern "**/*.*": any entry, at any depth, whose name has a dot
GlobMatch(path) == \E i \in 1..Len(FileName(path)) : FileName(path)[i] = "."

\* the directories of a tree, the root left out
DirsOf(files) == UNION {{Slice(p, 1, n) : n \in 1..(Len(p) - 1)} : p \in files}

\* what source_root.glob("**/*.*") yields over the source tree
Enumerated(tree) ==
    {e \in (DOMAIN tree) \cup DirsOf(DOMAIN tree) : GlobMatch(e)}

-----------------------------------------------------------------------------
(* The build walker *)

target_is_newer_strict(source, tree, target) ==
    target \in DOMAIN tree /\ tree[target].mtime > source.mtime

target_is_newer_swapped(source, tree, target) ==
    target \in DOMAIN tree /\ source.mtime >= tree[target].mtime

target_is_newer(source, tree, target) ==
    target \in DOMAIN tree /\ tree[target].mtime >= source.mtime

\* open(path, "w") ... write: the file holds text and is stamped with the clock
WriteFile(tree, path, text, clock) ==
    (path :> [text |-> text, mtime |-> clock]) @@ tree

\* the target opened for writing before the source is compiled: a failed
\* compilation leaves it empty
Written_open_first(tree, target, clock, c) ==
    [tree |-> IF c.out.ok THEN WriteFile(tree, target, c.out.val, clock)
              ELSE WriteFile(tree, target, <<>>, clock),
     store |-> c.store, out |-> c.out]

\* lines 79-82: the target is opened once the source is compiled; an
\* exception of the compiler leaves before that
Written(tree, target, clock, c) ==
    [tree |-> IF c.out.ok THEN WriteFile(tree, target, c.out.val, clock) ELSE tree,
     store |-> c.store, out |-> c.out]

compile_md_to_file(tree, store, source, target, depth, clock) ==
    Written(tree, target, clock, compile_from_source(store, source.text, depth))

\* mkdir(parents=True, exist_ok=True)
mkdir(dirs, dir) == dirs \cup {Slice(dir, 1, n) : n \in 0..Len(dir)}

\* what a loop turn that changes nothing leaves
Skipped(tree, store, dirs, pairs) ==
    [tree |-> tree, store |-> store, dirs |-> dirs, raised |-> FALSE,
     calls |-> {}, seen |-> pairs]

\* lines 111-112, c being what compile_md_to_file left
MdTurn(c, dirs, source_path, target, depth) ==
    [tree |-> c.tree, store |-> c.store, dirs |-> dirs, raised |-> ~c.out.ok,
     calls |-> {[kind |-> "md", source |-> source_path, target |-> target,
                 depth |-> depth, out |-> c.out]},
     seen |-> {<<source_path, target>>}]

\* lines 119-120
CpTurn(tree, store, dirs, source, source_path, target, depth, clock) ==
    [tree |-> WriteFile(tree, target, source.text, clock), store |-> store,
     dirs |-> dirs, raised |-> FALSE,
     calls |-> {[kind |-> "cp", source |-> source_path, target |-> target,
                 depth |-> depth, out |-> Return(source.text)]},
     seen |-> {<<source_path, target>>}]

\* lines 104-120, for a file
visit_file(source, tree, store, dirs, source_path, target, depth, clock) ==
    IF target_is_newer(source, tree, target)
    THEN Skipped(tree, store, dirs, {<<source_path, target>>})
    ELSE IF IsDocument(source_path)
    THEN MdTurn(compile_md_to_file(tree, store, source, target, depth, clock),
                dirs, source_path, target, depth)
    ELSE CpTurn(tree, store, dirs, source, source_path, target, depth, clock)

\* one turn of the loop of compile_all_files, for the entry source_path
visit(sources, tree, store, dirs, source_path, clock) ==
    IF source_path \notin DOMAIN sources
    THEN Skipped(tree, store, dirs, {})
    ELSE visit_file(sources[source_path], tree, store,
                    mkdir(dirs, Parent(target_path(source_path))),
                    source_path, target_path(source_path), depth_of(source_path), clock)

-----------------------------------------------------------------------------
(* The content tree the builds run on *)

N_p_md == <<"p", ".", "m", "d">>

\* the files a source tree is drawn from: path -> text
\*   p.md          x                            default template
\*   p.html        h                            an asset; p.md is compiled to p.html
\*   a/p.md        <!--template:s,title:T-->y   template s with its title
\*   a/v.1/r.md    <!--g:yo-->z                 default template, g overridden
\*   a/u.md        <!--template:zz-->u          no such template
\*   w.md          <!--template:s-->w           template s, no value for {title}
\*   CNAME         c                            a name without a dot
ContentFiles ==
    (<<N_p_md>> :> <<"x">>)
    @@ (<<<<"p", ".", "h", "t", "m", "l">>>> :> <<"h">>)
    @@ (<<<<"a">>, N_p_md>> :>
          <<"<", "!", "-", "-", "t", "e", "m", "p", "l", "a", "t", "e", ":", "s", ",",
            "t", "i", "t", "l", "e", ":", "T", "-", "-", ">", "y">>)
    @@ (<<<<"a">>, <<"v", ".", "1">>, <<"r", ".", "m", "d">>>> :>
          <<"<", "!", "-", "-", "g", ":", "y", "o", "-", "-", ">", "z">>)
    @@ (<<<<"a">>, <<"u", ".", "m", "d">>>> :>
          <<"<", "!", "-", "-", "t", "e", "m", "p", "l", "a", "t", "e", ":", "z", "z",
            "-", "-", ">", "u">>)
    @@ (<<<<"w", ".", "m", "d">>>> :>
          <<"<", "!", "-", "-", "t", "e", "m", "p", "l", "a", "t", "e", ":", "s",
            "-", "-", ">", "w">>)
    @@ (<<<<"C", "N", "A", "M", "E">>>> :> <<"c">>)

\* what a target file left by an earlier, unknown build holds
OLD == <<"o", "l", "d">>

\* the clock never runs past this
MaxClock == MaxTime + 1

\* when the earlier build wrote its targets: before the clock's first value
OldTime == MaxTime - 1

-----------------------------------------------------------------------------
(* compile_all_files, one loop turn per step *)

NoCall == <<>>

Init ==
    /\ \E S \in SUBSET (DOMAIN ContentFiles) :
         /\ S # {}
         /\ Cardinality(S) <= MaxFiles
         /\ \E m \in [S -> 1..MaxTime] :
              src = [p \in S |-> [text |-> ContentFiles[p], mtime |-> m[p]]]
         /\ \E E \in SUBSET {target_path(p) : p \in S} :
              tgt = [t \in E |-> [text |-> OLD, mtime |-> OldTime]]
    /\ tgt0 = tgt
    /\ tdirs = UNION {mkdir({}, Parent(t)) : t \in DOMAIN tgt}
    /\ TEMPLATES = load_templates(TemplateFiles)
    /\ now = MaxTime
    /\ todo = Enumerated(src)
    /\ pc = "walking"
    /\ prev = "none"
    /\ calls = {}
    /\ seen = {}
    /\ arg = NoCall
    /\ ret = NoCall

\* what one loop turn, r, does to the state; an exception leaves
\* compile_all_files
Turn(r, source_path, clock) ==
    /\ tgt' = r.tree
    /\ TEMPLATES' = r.store
    /\ tdirs' = r.dirs
    /\ calls' = calls \cup r.calls
    /\ seen' = seen \cup r.seen
    /\ now' = clock
    /\ pc' = IF r.raised THEN "failed" ELSE pc
    /\ todo' = IF r.raised THEN {} ELSE todo \ {source_path}

\* the loop body runs for one entry the glob yields, in any order; a file
\* written is stamped with the clock
Visit ==
    /\ pc = "walking"
    /\ \E source_path \in todo :
         Turn(visit(src, tgt, TEMPLATES, tdirs, source_path, now), source_path, now)
    /\ UNCHANGED <<src, tgt0, prev, arg, ret>>

\* the glob is exhausted: compile_all_files returns
Return_ ==
    /\ pc = "walking"
    /\ todo = {}
    /\ pc' = "done"
    /\ UNCHANGED <<src, tgt, tgt0, tdirs, TEMPLATES, now, todo, prev, calls, seen, arg, ret>>

\* compile_all_files is called again on the same trees, in the same process,
\* some time after the build before it ended
Rebuild ==
    /\ pc \in {"done", "failed"}
    /\ now < MaxClock
    /\ prev' = pc
    /\ pc' = "walking"
    /\ tgt0' = tgt
    /\ todo' = Enumerated(src)
    /\ calls' = {}
    /\ seen' = {}
    /\ now' = now + 1
    /\ UNCHANGED <<src, tgt, tdirs, TEMPLATES, arg, ret>>

Next == Visit \/ Return_ \/ Rebuild

Spec == Init /\ [][Next]_vars

-----------------------------------------------------------------------------
(* compile_all_files run to its end in a given order *)

RECURSIVE RunInOrder(_, _, _, _, _)
RECURSIVE RunOn(_, _, _, _)
RunOn(sources, r, rest, clock) ==
    IF r.raised THEN [tree |-> r.tree, raised |-> TRUE]
    ELSE RunInOrder(sources, r.tree, r.store, rest, clock)

\* the loop of compile_all_files when the glob yields the entries of order
RunInOrder(sources, tree, store, order, clock) ==
    IF order = <<>> THEN [tree |-> tree, raised |-> FALSE]
    ELSE RunOn(sources, visit(sources, tree, store, {}, Head(order), clock),
               Tail(order), clock)

-----------------------------------------------------------------------------
(* parse_params called on its own, on a serialized parameter mapping *)

\* no file system takes part
NoFiles ==
    /\ src = <<>>
    /\ tgt = <<>>
    /\ tgt0 = <<>>
    /\ tdirs = {}
    /\ TEMPLATES = <<>>
    /\ now = 0
    /\ todo = {}
    /\ prev = "none"
    /\ calls = {}
    /\ seen = {}

KeyTokens == {<<"a">>, <<"b", "1">>, <<"a", " ", "b">>, <<>>, <<QUOTE>>}

ValueTokens == {<<"v">>, <<"a", " ", "b">>, <<>>, <<QUOTE>>, <<NL>>}

\* the key: value lists of at most MaxPairs pairs, their keys distinct
PairLists ==
    {ps \in UNION {[1..n -> [key : KeyTokens, value : ValueTokens]] : n \in 0..MaxPairs} :
        \A i, j \in DOMAIN ps : i # j => ps[i].key # ps[j].key}

\* a bare word of the grammar: letters, digits, underscore, at least one
IsBareWord(t) == t # <<>> /\ \A i \in 1..Len(t) : IsWord(t[i])

\* a token as the grammar writes it: a bare word, or between double quotes
TokenText(t, style) ==
    IF IsBareWord(t) /\ style # "quoted" THEN t ELSE <<QUOTE>> \o t \o <<QUOTE>>

PairText(pair, style) ==
    IF style = "spaced"
    THEN TokenText(pair.key, style) \o <<" ", ":", " ">> \o TokenText(pair.value, style)
    ELSE TokenText(pair.key, style) \o <<":">> \o TokenText(pair.value, style)

\* the pairs, comma-separated
RECURSIVE Serialize(_, _)
Serialize(pairs, style) ==
    IF pairs = <<>> THEN <<>>
    ELSE IF Len(pairs) = 1 THEN PairText(pairs[1], style)
    ELSE PairText(pairs[1], style)
         \o (IF style = "spaced" THEN <<" ", ",", " ">> ELSE <<",">>)
         \o Serialize(Tail(pairs), style)

\* the mapping that was serialized
MapOf(pairs) ==
    [k \in {pairs[i].key : i \in DOMAIN pairs} |->
        pairs[CHOOSE i \in DOMAIN pairs : pairs[i].key = k].value]

InitParams ==
    /\ NoFiles
    /\ pc = "ready"
    /\ \E ps \in PairLists : \E style \in {"bare", "quoted", "spaced"} :
         arg = [pairs |-> ps, style |-> style]
    /\ ret = NoCall

CallParseParams ==
    /\ pc = "ready"
    /\ ret' = parse_params(Serialize(arg.pairs, arg.style))
    /\ pc' = "returned"
    /\ UNCHANGED <<fsvars_but_pc, arg>>

SpecParams == InitParams /\ [][CallParseParams]_vars

-----------------------------------------------------------------------------
(* extract_config called on its own *)

TextParts == {OPEN, CLOSE, <<" ">>, <<NL>>, <<"a", ":", "b">>, <<"x">>, <<"-">>}

\* the texts of at most MaxParts parts
Texts == {Concat(ps) : ps \in UNION {[1..n -> TextParts] : n \in 0..MaxParts}}

InitExtract ==
    /\ NoFiles
    /\ pc = "ready"
    /\ arg \in Texts
    /\ ret = NoCall

CallExtractConfig ==
    /\ pc = "ready"
    /\ ret' = extract_config(arg)
    /\ pc' = "returned"
    /\ UNCHANGED <<fsvars_but_pc, arg>>

SpecExtract == InitExtract /\ [][CallExtractConfig]_vars

-----------------------------------------------------------------------------
(* apply_template called on its own *)

K_g == <<"g">>

K_t == <<"t">>

\* {root}|{g}|{content}
SlotsHtml ==
    <<"{", "r", "o", "o", "t", "}", "|", "{", "g", "}", "|",
      "{", "c", "o", "n", "t", "e", "n", "t", "}">>

RenderKeys == {K_g, K_root, K_content, K_t}

\* the mappings that give value v to some of the keys
MapsTo(v) == {[k \in S |-> v] : S \in SUBSET RenderKeys}

InitRender ==
    /\ NoFiles
    /\ pc = "ready"
    /\ \E D \in MapsTo(<<"1">>) : \E P \in MapsTo(<<"2">>) : \E d \in 0..MaxDepth :
         arg = [defaults |-> D, page |-> P, depth |-> d]
    /\ ret = NoCall

CallApplyTemplate ==
    /\ pc = "ready"
    /\ ret' = apply_template(K_t :> [html |-> SlotsHtml, default_params |-> arg.defaults],
                             K_t, <<"C">>, arg.page, arg.depth).out
    /\ pc' = "returned"
    /\ UNCHANGED <<fsvars_but_pc, arg>>

SpecRender == InitRender /\ [][CallApplyTemplate]_vars

-----------------------------------------------------------------------------
(* What the claims speak of, stated apart from the walker's own operators *)

\* name ends with .md and has a stem before it
EndsWithMd(name) ==
    Len(name) > 3 /\ name[Len(name) - 2] = "." /\ name[Len(name) - 1] = "m"
                  /\ name[Len(name)] = "d"

\* the mirrored relative path: same directories, .md replaced by .html
MirrorPath(path) ==
    IF EndsWithMd(path[Len(path)])
    THEN [path EXCEPT ![Len(path)] = SubSeq(@, 1, Len(@) - 3) \o <<".", "h", "t", "m", "l">>]
    ELSE path

\* the regular files the running build enumerates
EnumeratedFiles == Enumerated(src) \cap DOMAIN src

\* the target of source file sp existed, at least as new as sp, when the build started
FreshAtStart(sp) ==
    /\ MirrorPath(sp) \in DOMAIN tgt0
    /\ tgt0[MirrorPath(sp)].mtime >= src[sp].mtime

\* the target of sp is as the build found it
TargetUntouched(sp) ==
    /\ MirrorPath(sp) \in DOMAIN tgt
    /\ tgt[MirrorPath(sp)] = tgt0[MirrorPath(sp)]

Invoked(sp) == \E c \in calls : c.source = sp

Contents(tree) == [t \in DOMAIN tree |-> tree[t].text]

\* the orders in which the entries of S can be visited
Orders(S) ==
    {o \in [1..Cardinality(S) -> S] : \A i, j \in DOMAIN o : i # j => o[i] # o[j]}

\* the running build, from its start, with the loaded store, in the given order
BuildInOrder(order) ==
    RunInOrder(src, tgt0, load_templates(TemplateFiles), order, now)

TargetsDistinct ==
    \A p, q \in EnumeratedFiles : p # q => MirrorPath(p) # MirrorPath(q)

\* "../" repeated n times, then the bar the templates put after {root}
HasRootPrefix(html, n) ==
    /\ Len(html) > 3 * n
    /\ \A i \in 1..(3 * n) : html[i] = (IF i % 3 = 0 THEN "/" ELSE ".")
    /\ html[3 * n + 1] = "|"

-----------------------------------------------------------------------------
(* C1 *)

\* C1, as claimed: once a build has returned, every enumerated source file
\* whose target existed with mtime >= the source's when the build started was
\* neither compiled nor copied, and its target has the content and mtime it had.
C1_FreshTargetSame ==
    pc = "done" =>
        \A sp \in EnumeratedFiles :
            FreshAtStart(sp) => ~Invoked(sp) /\ TargetUntouched(sp)

\* C1, amended: at every moment of a build, an enumerated source file whose
\* target was fresh when the build started has not been compiled or copied,
\* and its target is as it was unless the build compiled or copied another
\* source file onto the same target path.
C1_FreshSkip ==
    \A sp \in EnumeratedFiles :
        FreshAtStart(sp) =>
            /\ ~Invoked(sp)
            /\ \/ TargetUntouched(sp)
               \/ \E c \in calls : c.target = MirrorPath(sp) /\ c.source # sp

\* a build that returned wrote some target and skipped a fresh one, left as it was
C1_Witness ==
    /\ pc = "done"
    /\ calls # {}
    /\ \E sp \in EnumeratedFiles :
         FreshAtStart(sp) /\ TargetUntouched(sp) /\ tgt0[MirrorPath(sp)].text = OLD

-----------------------------------------------------------------------------
(* C2 *)

\* C2, as claimed: after a build returned, every regular file of the source
\* tree, whatever its name, has a target at the mirrored path.
C2_EveryFileMirrored ==
    pc = "done" => \A sp \in DOMAIN src : MirrorPath(sp) \in DOMAIN tgt

-----------------------------------------------------------------------------
(* C3 *)

-----------------------------------------------------------------------------
(* C4 *)

\* C4, as claimed: no two distinct source files are mapped to the same
\* target path.
C4_Injective ==
    \A x, y \in seen : x[1] # y[1] => x[2] # y[2]

\* the names of two files, one S.md and the other S.html
MdHtmlPair(a, b) ==
    EndsWithMd(a) /\ b = SubSeq(a, 1, Len(a) - 3) \o <<".", "h", "t", "m", "l">>

\* C4, amended: two distinct source files are mapped to the same target
\* path only when they are in the same directory and are named S.md and
\* S.html; any other two source files get distinct target paths.
C4_InjectiveButMdHtml ==
    \A x, y \in seen :
        (x[1] # y[1] /\ x[2] = y[2]) =>
            /\ SubSeq(x[1], 1, Len(x[1]) - 1) = SubSeq(y[1], 1, Len(y[1]) - 1)
            /\ \/ MdHtmlPair(x[1][Len(x[1])], y[1][Len(y[1])])
               \/ MdHtmlPair(y[1][Len(y[1])], x[1][Len(x[1])])

\* a build that returned had mapped two source files onto one target path
C4_Witness ==
    /\ pc = "done"
    /\ \E x, y \in seen : x[1] # y[1] /\ x[2] = y[2]

-----------------------------------------------------------------------------
(* C5 *)

\* C5, as claimed: whatever keys the defaults D and the page parameters P
\* hold, when they give a value to the slot g the rendering succeeds, with
\* "../" * depth for root, the content for content, and P[g] if P has g,
\* D[g] otherwise.
C5_Resolved ==
    (pc = "returned" /\ K_g \in (DOMAIN arg.page) \cup (DOMAIN arg.defaults)) =>
        /\ ret.ok
        /\ HasRootPrefix(ret.val, arg.depth)
        /\ SubSeq(ret.val, 3 * arg.depth + 2, Len(ret.val)) =
              (IF K_g \in DOMAIN arg.page THEN arg.page[K_g] ELSE arg.defaults[K_g])
              \o <<"|", "C">>

-----------------------------------------------------------------------------
(* C6 *)

\* C6: every document the build compiled, with n directories above it under
\* the source root, was compiled with depth n, and the page it got starts
\* with "../" repeated n times where the template has {root}.
C6_DepthFromPath ==
    \A c \in calls :
        c.kind = "md" =>
            /\ c.depth = Len(c.source) - 1
            /\ c.out.ok => HasRootPrefix(c.out.val, Len(c.source) - 1)

\* a document two directories down was compiled into a page
C6_Witness ==
    \E c \in calls :
        c.kind = "md" /\ Len(c.source) = 3 /\ c.out.ok /\ c.target \in DOMAIN tgt

-----------------------------------------------------------------------------
(* C7 *)

K_title == <<"t", "i", "t", "l", "e">>

\* the document names a template the store does not have
TemplateMissing(sp) ==
    TemplateName(extract_config(src[sp].text).params) \notin DOMAIN TEMPLATES

\* the document's template has the slot {title} and nothing gives it a value
TitleMissing(sp) ==
    /\ ~TemplateMissing(sp)
    /\ TemplateName(extract_config(src[sp].text).params) = <<"s">>
    /\ K_title \notin DOMAIN extract_config(src[sp].text).params
    /\ K_title \notin DOMAIN TEMPLATES[<<"s">>].default_params

\* C7: a document whose template is not in the store, or whose template has
\* a slot without a value, is compiled to an error and never to a page; the
\* error ends the build; and the step in which a document fails changes no
\* target file.
C7_FailedDocument ==
    /\ [](\A c \in calls :
            (c.kind = "md" /\ (TemplateMissing(c.source) \/ TitleMissing(c.source))) =>
                ~c.out.ok /\ c.out.err = "KeyError" /\ pc = "failed")
    /\ [][(\E c \in calls' : ~c.out.ok /\ c \notin calls) =>
            (tgt' = tgt /\ pc' = "failed" /\ todo' = {})]_vars

\* a document failed after the same build had written another target, and
\* its own target does not exist
C7_Witness ==
    /\ pc = "failed"
    /\ \E c \in calls : ~c.out.ok /\ c.target \notin DOMAIN tgt
    /\ \E c \in calls : c.out.ok /\ c.target \in DOMAIN tgt

-----------------------------------------------------------------------------
(* C8 *)

\* a complete metadata block starts at position i of s: the open delimiter,
\* and a close delimiter somewhere after it
BlockAt(s, i) ==
    /\ i + 3 <= Len(s)
    /\ SubSeq(s, i, i + 3) = <<"<", "!", "-", "-">>
    /\ \E c \in (i + 4)..(Len(s) - 2) : SubSeq(s, c, c + 2) = <<"-", "-", ">">>

\* C8, as claimed: a text without a complete block at its very start yields
\* no parameters and itself as the body.
C8_NoBlockAtStart ==
    (pc = "returned" /\ ~BlockAt(arg, 1)) =>
        ret = [params |-> EmptyDict, content |-> arg]

\* C8, amended: extract_config returns a pair for every text, and a text
\* without a complete block after its leading whitespace (the characters the
\* pattern's \s takes) yields no parameters and itself as the body.
C8_NoBlockAfterSpace ==
    pc = "returned" =>
        /\ DOMAIN ret = {"params", "content"}
        /\ (~\E i \in 1..Len(arg) :
                BlockAt(arg, i) /\ \A k \in 1..(i - 1) : IsSpace(arg[k]))
           => ret = [params |-> EmptyDict, content |-> arg]

\* a text with a block that is not at its start came back whole
C8_Witness ==
    /\ pc = "returned"
    /\ \E i \in 2..Len(arg) : BlockAt(arg, i)
    /\ arg[1] = "x"
    /\ ret = [params |-> EmptyDict, content |-> arg]

-----------------------------------------------------------------------------
(* C9 *)

TokensFreeOf(pairs, chars) ==
    \A i \in DOMAIN pairs :
        /\ \A k \in DOMAIN pairs[i].key : pairs[i].key[k] \notin chars
        /\ \A k \in DOMAIN pairs[i].value : pairs[i].value[k] \notin chars

\* C9, as claimed: a mapping whose keys and values have no comma and no
\* colon, serialized and parsed, comes back.
C9_RoundTrip ==
    (pc = "returned" /\ TokensFreeOf(arg.pairs, {",", ":"})) =>
        ret = MapOf(arg.pairs)

\* C9, amended: a mapping whose keys and values have no comma, no colon, no
\* double quote and no line break, serialized and parsed, comes back.
C9_RoundTripPlain ==
    (pc = "returned" /\ TokensFreeOf(arg.pairs, {",", ":", "\"", "\n"})) =>
        ret = MapOf(arg.pairs)

\* a mapping of two keys, one of them quoted for its space, came back
C9_Witness ==
    /\ pc = "returned"
    /\ Len(arg.pairs) = 2
    /\ TokensFreeOf(arg.pairs, {",", ":", "\"", "\n"})
    /\ \E i \in DOMAIN arg.pairs : arg.pairs[i].key = <<"a", " ", "b">>
    /\ ret = MapOf(arg.pairs)

-----------------------------------------------------------------------------
(* C10 *)

\* C10: when a build has returned, every source file it enumerated has a
\* target at least as new as itself; and the build that follows a build that
\* returned compiles and copies nothing.
C10_Converges ==
    /\ pc = "done" =>
          \A sp \in EnumeratedFiles :
              /\ MirrorPath(sp) \in DOMAIN tgt
              /\ tgt[MirrorPath(sp)].mtime >= src[sp].mtime
    /\ prev = "done" => calls = {}

\* a second build returned after a first one that had written a target
C10_Witness ==
    /\ prev = "done"
    /\ pc = "done"
    /\ calls = {}
    /\ \E t \in DOMAIN tgt : tgt[t].text # OLD

=============================================================================
